---- MODULE Spec2Model ----
(***************************************************************************)
(* Maximum s-t flow: the Ford-Fulkerson driver, the capacity-scaling       *)
(* driver and the push-relabel (preflow-push) engine, run by a caller on   *)
(* one loaded capacity graph object.                                       *)
(*                                                                         *)
(* A Python dict of dicts {u: {v: capacity}} is a record                   *)
(*   verts : the keys of the outer dict, in insertion order                *)
(*   adj   : for every node the keys of its inner dict, in insertion order *)
(*   cap   : the stored value of every arc (0 where no arc is stored)      *)
(***************************************************************************)
EXTENDS Integers, Sequences, FiniteSets, TLC

\* Largest capacity written on an input line.
MaxCap == 2

\* Bound on the heights preflow-push may assign. On a valid graph a height
\* stays below 2 * |Nodes|; on a graph with a negative capacity the program
\* can relabel for ever, and the model follows it up to this height.
MaxHeight == 8

Nodes == {"s", "a", "b", "t"}
source == "s"
sink == "t"

\* float('inf'), the bottleneck an empty path prefix carries.
Inf == -1

Range(q) == {q[i] : i \in 1..Len(q)}

\* Variant: the second argument, whatever the first.
MinSecond(x, y) == y

\* Variant: the larger of the two.
MinLarger(x, y) == IF x = Inf THEN y ELSE IF y = Inf THEN x ELSE IF x < y THEN y ELSE x

Min(x, y) == IF x = Inf THEN y ELSE IF y = Inf THEN x ELSE IF x < y THEN x ELSE y

RECURSIVE SumOver(_, _)
SumOver(S, f) ==
    IF S = {} THEN 0
    ELSE LET x == CHOOSE y \in S : TRUE IN f[x] + SumOver(S \ {x}, f)

\* a local variable: v is evaluated once and F works on the value
Bind(v, F(_)) == CHOOSE r \in {F(x) : x \in {v}} : TRUE

Arcs == Nodes \X Nodes

EmptyGraph ==
    [verts |-> <<>>, adj |-> [n \in Nodes |-> <<>>], cap |-> [e \in Arcs |-> 0]]

HasNode(g, u) == u \in Range(g.verts)
HasArc(g, u, v) == HasNode(g, u) /\ v \in Range(g.adj[u])

\* graph[u] = {} for a node that may or may not exist yet
AddNode(g, u) ==
    IF HasNode(g, u) THEN g ELSE [g EXCEPT !.verts = Append(@, u)]

\* graph[u][v] = c for an existing node u
SetArc(g, u, v, c) ==
    [g EXCEPT !.adj[u] = IF v \in Range(@) THEN @ ELSE Append(@, v),
              !.cap[<<u, v>>] = c]

(***************************************************************************)
(* Graphinjest.load_graph, one input line "u v val".                       *)
(***************************************************************************)
LoadLine(g, u, v, val) ==
    LET g1 == AddNode(g, u)
        g2 == AddNode(g1, v)
        g3 == SetArc(g2, u, v, val)
    IN  IF HasArc(g3, v, u) THEN g3 ELSE SetArc(g3, v, u, 0)

RECURSIVE LoadLines(_, _)
LoadLines(g, lines) ==
    IF lines = <<>> THEN g
    ELSE Bind(LoadLine(g, lines[1][1], lines[1][2], lines[1][3]),
              LAMBDA g1 : LoadLines(g1, Tail(lines)))

load_graph(lines) == LoadLines(EmptyGraph, lines)

(***************************************************************************)
(* The input files: one line per edge slot, every capacity in 0..MaxCap,   *)
(* written top-down or bottom-up.                                          *)
(***************************************************************************)
EdgeSlots ==
    << <<"s", "a">>, <<"s", "b">>, <<"a", "b">>, <<"b", "a">>,
       <<"a", "t">>, <<"b", "t">>, <<"a", "s">> >>

Reverse(q) == [k \in 1..Len(q) |-> q[Len(q) + 1 - k]]

FileLines(c, order) ==
    LET top == [k \in 1..Len(EdgeSlots) |->
                   <<EdgeSlots[k][1], EdgeSlots[k][2], c[k]>>]
    IN  IF order = "down" THEN top ELSE Reverse(top)

ValidFiles ==
    {FileLines(c, o) : c \in [1..Len(EdgeSlots) -> 0..MaxCap], o \in {"down", "up"}}

\* Files the input format forbids: one capacity is negative, or no line names
\* the source, or no line names the sink.
DropNode(lines, n) == SelectSeq(lines, LAMBDA l : l[1] # n /\ l[2] # n)

InvalidFiles ==
    {FileLines([c EXCEPT ![k] = 0 - 1], o) :
        c \in [1..Len(EdgeSlots) -> 0..MaxCap], k \in 1..Len(EdgeSlots), o \in {"down", "up"}}
    \cup {DropNode(f, n) : f \in ValidFiles, n \in {source, sink}}

(***************************************************************************)
(* FordFulkerson.augmentedPath: iterative depth-first search with an       *)
(* explicit stack of (node, bottleneck so far, edges taken).  NoPath is    *)
(* Python's None.                                                          *)
(***************************************************************************)
NoPath == <<>>

RECURSIVE PushNeighbours(_, _, _, _, _)
PushNeighbours(rg, entry, nbrs, visited, stack) ==
    IF nbrs = <<>> THEN stack
    ELSE LET neighbour == Head(nbrs)
             capacity == rg.cap[<<entry.node, neighbour>>]
         IN  IF capacity > 0 /\ neighbour \notin visited
             THEN PushNeighbours(rg, entry, Tail(nbrs), visited,
                      Append(stack, [node |-> neighbour,
                                     flow |-> Min(entry.flow, capacity),
                                     path |-> Append(entry.path, <<entry.node, neighbour>>)]))
             ELSE PushNeighbours(rg, entry, Tail(nbrs), visited, stack)

RECURSIVE SearchLoop(_, _, _, _)
SearchLoop(rg, t, stack, visited) ==
    IF stack = <<>> THEN [path |-> NoPath, flow |-> 0, err |-> "none"]
    ELSE LET entry == stack[Len(stack)]
             rest == SubSeq(stack, 1, Len(stack) - 1)
         IN  IF entry.node = t
             THEN [path |-> entry.path, flow |-> entry.flow, err |-> "none"]
             ELSE IF ~HasNode(rg, entry.node)
             THEN [path |-> NoPath, flow |-> 0, err |-> "KeyError"]
             ELSE LET seen == visited \cup {entry.node}
                  IN  Bind(PushNeighbours(rg, entry, rg.adj[entry.node], seen, rest),
                           LAMBDA st : SearchLoop(rg, t, st, seen))

augmentedPath(rg, s, t) ==
    SearchLoop(rg, t, <<[node |-> s, flow |-> Inf, path |-> <<>>]>>, {})

(***************************************************************************)
(* The residual update of one augmentation, lines 41-43 of FordFulkerson.  *)
(***************************************************************************)
\* Variant: the reverse arc is not credited.
RECURSIVE AugmentForwardOnly(_, _, _)
AugmentForwardOnly(rg, path, f) ==
    IF path = <<>> THEN rg
    ELSE AugmentForwardOnly([rg EXCEPT !.cap[<<path[1][1], path[1][2]>>] = @ - f],
                            Tail(path), f)

\* Variant: the arc taken is debited twice the bottleneck.
RECURSIVE AugmentTwice(_, _, _)
AugmentTwice(rg, path, f) ==
    IF path = <<>> THEN rg
    ELSE LET x == path[1][1]
             y == path[1][2]
             r1 == [rg EXCEPT !.cap[<<x, y>>] = @ - 2 * f]
             r2 == [r1 EXCEPT !.cap[<<y, x>>] = @ + f]
         IN  Bind(r2, LAMBDA r : AugmentTwice(r, Tail(path), f))

RECURSIVE Augment(_, _, _)
Augment(rg, path, f) ==
    IF path = <<>> THEN rg
    ELSE LET x == path[1][1]
             y == path[1][2]
             r1 == [rg EXCEPT !.cap[<<x, y>>] = @ - f]
             r2 == [r1 EXCEPT !.cap[<<y, x>>] = @ + f]
         IN  Bind(r2, LAMBDA r : Augment(r, Tail(path), f))

(***************************************************************************)
(* fordFulkerson, lines 22-34: copy the capacity graph, then add the       *)
(* missing reverse arcs with capacity 0.                                   *)
(***************************************************************************)
CopyGraph(g) == [verts |-> g.verts, adj |-> g.adj, cap |-> g.cap]

RECURSIVE AddReverseOf(_, _, _)
AddReverseOf(rg, x, nbrs) ==
    IF nbrs = <<>> THEN rg
    ELSE LET y == Head(nbrs)
             r1 == AddNode(rg, y)
             r2 == IF HasArc(r1, y, x) THEN r1 ELSE SetArc(r1, y, x, 0)
         IN  Bind(r2, LAMBDA r : AddReverseOf(r, x, Tail(nbrs)))

RECURSIVE AddReverse(_, _)
AddReverse(rg, keys) ==
    IF keys = <<>> THEN rg
    ELSE Bind(AddReverseOf(rg, Head(keys), rg.adj[Head(keys)]),
              LAMBDA r : AddReverse(r, Tail(keys)))

BuildResidual(g) == AddReverse(CopyGraph(g), g.verts)

(***************************************************************************)
(* ScalingFordFulkerson.augmentedPathWithDelta: the same search, an arc    *)
(* qualifies when its residual capacity is at least delta.                 *)
(***************************************************************************)
\* Variant: the threshold test written capacity > delta.
RECURSIVE PushNeighboursDeltaStrict(_, _, _, _, _, _)
PushNeighboursDeltaStrict(rg, entry, nbrs, visited, stack, d) ==
    IF nbrs = <<>> THEN stack
    ELSE LET neighbour == Head(nbrs)
             capacity == rg.cap[<<entry.node, neighbour>>]
         IN  IF capacity > d /\ neighbour \notin visited
             THEN PushNeighboursDeltaStrict(rg, entry, Tail(nbrs), visited,
                      Append(stack, [node |-> neighbour,
                                     flow |-> Min(entry.flow, capacity),
                                     path |-> Append(entry.path, <<entry.node, neighbour>>)]), d)
             ELSE PushNeighboursDeltaStrict(rg, entry, Tail(nbrs), visited, stack, d)

RECURSIVE PushNeighboursDelta(_, _, _, _, _, _)
PushNeighboursDelta(rg, entry, nbrs, visited, stack, d) ==
    IF nbrs = <<>> THEN stack
    ELSE LET neighbour == Head(nbrs)
             capacity == rg.cap[<<entry.node, neighbour>>]
         IN  IF capacity >= d /\ neighbour \notin visited
             THEN PushNeighboursDelta(rg, entry, Tail(nbrs), visited,
                      Append(stack, [node |-> neighbour,
                                     flow |-> Min(entry.flow, capacity),
                                     path |-> Append(entry.path, <<entry.node, neighbour>>)]), d)
             ELSE PushNeighboursDelta(rg, entry, Tail(nbrs), visited, stack, d)

RECURSIVE SearchLoopDelta(_, _, _, _, _)
SearchLoopDelta(rg, t, stack, visited, d) ==
    IF stack = <<>> THEN [path |-> NoPath, flow |-> 0, err |-> "none"]
    ELSE LET entry == stack[Len(stack)]
             rest == SubSeq(stack, 1, Len(stack) - 1)
         IN  IF entry.node = t
             THEN [path |-> entry.path, flow |-> entry.flow, err |-> "none"]
             ELSE IF ~HasNode(rg, entry.node)
             THEN [path |-> NoPath, flow |-> 0, err |-> "KeyError"]
             ELSE LET seen == visited \cup {entry.node}
                  IN  Bind(PushNeighboursDelta(rg, entry, rg.adj[entry.node], seen, rest, d),
                           LAMBDA st : SearchLoopDelta(rg, t, st, seen, d))

augmentedPathWithDelta(rg, s, t, d) ==
    SearchLoopDelta(rg, t, <<[node |-> s, flow |-> Inf, path |-> <<>>]>>, {}, d)

(***************************************************************************)
(* compute_initial_delta: max() of an empty dict raises ValueError, a      *)
(* missing source raises KeyError; NoDelta stands for the raised error.    *)
(***************************************************************************)
NoDelta == -1

MaxOf(S) == CHOOSE x \in S : \A y \in S : y <= x

\* Variant: the loop body runs at most once.
DoubleOnce(d, maxcap) == IF d * 2 <= maxcap THEN d * 2 ELSE d

RECURSIVE DoubleWhile(_, _)
DoubleWhile(d, maxcap) ==
    IF d * 2 <= maxcap THEN DoubleWhile(d * 2, maxcap) ELSE d

\* Variant: the initial delta is never doubled.
InitialDeltaOne(g) ==
    IF ~HasNode(g, source) \/ g.adj[source] = <<>> THEN NoDelta ELSE 1

compute_initial_delta(g) ==
    IF ~HasNode(g, source) \/ g.adj[source] = <<>> THEN NoDelta
    ELSE DoubleWhile(1, MaxOf({g.cap[<<source, v>>] : v \in Range(g.adj[source])}))

DeltaError(g) == IF ~HasNode(g, source) THEN "KeyError" ELSE "ValueError"

(***************************************************************************)
(* State.  The caller holds one loaded graph object and invokes drivers on *)
(* it one after the other.                                                 *)
(*   FF, SFF        fordFulkerson / scalingFordFulkerson of                *)
(*                  Algorithms/FordFulkerson.py, ScalingFordFulkerson.py   *)
(*   FFdir, SFFdir  the same functions of Algorithms/FordFulkerson/ and    *)
(*                  Algorithms/ScalingFordFulkerson/                       *)
(*   PP             preflow_push_max_flow                                  *)
(***************************************************************************)
VARIABLES
    loaded,         \* the graph as load_graph returned it (never written)
    graph,          \* the caller's graph object
    caller,         \* "main": the module's own main block; "automated": the importing script
    calls,          \* the driver invocations the caller still makes
    results,        \* what the finished invocations returned or raised
    driver,         \* the driver that runs, "none" before the first call
    pc,
    residualgraph, maxflow, stpaths, delta,
    phases,         \* history: iterations of the scaling loop started in this run
    phasepaths,     \* history: augmentations applied in the current iteration of it
    flow, excess, height, active, u, old_height, idx, pushed,
    call,           \* a function called on its own: its name and its arguments
    frame           \* the local variables of that call and what it returned or raised

vars == <<call, frame, loaded, graph, caller, calls, results, driver, pc,
          residualgraph, maxflow, stpaths, delta, phases, phasepaths,
          flow, excess, height, active, u, old_height, idx, pushed>>

ffVars == <<residualgraph, maxflow, stpaths, delta, phases, phasepaths>>
ppVars == <<flow, excess, height, active, u, old_height, idx, pushed>>

Drivers == {"FF", "SFF", "PP", "FFdir", "SFFdir"}

\* FFdir and SFFdir work on the object they are handed
Aliased(d) == d \in {"FFdir", "SFFdir"}

ZeroFlow == [e \in Arcs |-> 0]
ZeroNodes == [n \in Nodes |-> 0]

Returned(d, f, n) == [alg |-> d, outcome |-> "returned", flow |-> f, paths |-> n, error |-> "none"]
Raised(d, e) == [alg |-> d, outcome |-> "raised", flow |-> 0, paths |-> 0, error |-> e]

\* no function is called on its own while the drivers run
NoCall == [fn |-> "none"]
NoFrame == [outcome |-> "none"]

InitWith(files, callSeqs, callers) ==
    /\ \E f \in files : loaded = load_graph(f)
    /\ call = NoCall
    /\ frame = NoFrame
    /\ graph = loaded
    /\ calls \in callSeqs
    /\ caller \in callers
    /\ results = <<>>
    /\ driver = "none"
    /\ pc = "idle"
    /\ residualgraph = EmptyGraph
    /\ maxflow = 0
    /\ stpaths = 0
    /\ delta = 0
    /\ phases = 0
    /\ phasepaths = 0
    /\ flow = ZeroFlow
    /\ excess = ZeroNodes
    /\ height = ZeroNodes
    /\ active = <<>>
    /\ u = "none"
    /\ old_height = 0
    /\ idx = 0
    /\ pushed = FALSE

Init == InitWith(ValidFiles, {<<"FF", "SFF", "PP">>}, {"main"})

ResetPP ==
    /\ flow' = ZeroFlow
    /\ excess' = ZeroNodes
    /\ height' = ZeroNodes
    /\ active' = <<>>
    /\ u' = "none"
    /\ old_height' = 0
    /\ idx' = 0
    /\ pushed' = FALSE

Enter(d) ==
    /\ pc = "idle"
    /\ calls # <<>>
    /\ Head(calls) = d
    /\ driver' = d
    /\ calls' = Tail(calls)

Finish(r) ==
    /\ results' = Append(results, r)
    /\ pc' = "idle"

(***************************************************************************)
(* FordFulkerson/FordFulkerson.py, lines 74-84.  The parameter is named    *)
(* residualgraph and the loops read the module global graph: in the main   *)
(* block both are the loaded object, so residualgraph[u] = {} empties the  *)
(* adjacency that the inner loop then reads.                               *)
(***************************************************************************)
Wipe(g) == [verts |-> g.verts, adj |-> [n \in Nodes |-> <<>>], cap |-> [e \in Arcs |-> 0]]

BuildInPlace(g) == AddReverse(Wipe(g), g.verts)

\* fordFulkerson up to its while loop
FFBuild ==
    /\ \E d \in {"FF", "FFdir"} : Enter(d)
    /\ ResetPP
    /\ maxflow' = 0
    /\ stpaths' = 0
    /\ delta' = 0
    /\ phases' = 0
    /\ phasepaths' = 0
    /\ UNCHANGED <<call, frame, loaded, caller>>
    /\ IF Head(calls) = "FF"
       THEN /\ residualgraph' = BuildResidual(graph)
            /\ pc' = "ff_loop"
            /\ UNCHANGED <<graph, results>>
       ELSE IF caller = "main"
       THEN /\ residualgraph' = BuildInPlace(graph)
            /\ graph' = residualgraph'
            /\ pc' = "ff_loop"
            /\ UNCHANGED results
       ELSE \* imported: the module has no global named graph
            /\ Finish(Raised("FFdir", "NameError"))
            /\ UNCHANGED <<graph, residualgraph>>

\* Variant: maxflow = flow.
AddFlowAssign(total, f) == f

\* maxflow += flow
AddFlow(total, f) == total + f

SetResidual(rg) ==
    /\ residualgraph' = rg
    /\ graph' = IF Aliased(driver) THEN rg ELSE graph

\* one iteration of the while loop that applies an augmentation
FFAugment ==
    /\ pc = "ff_loop"
    /\ LET r == augmentedPath(residualgraph, source, sink)
       IN  /\ r.err = "none"
           /\ r.flow # 0
           /\ maxflow' = AddFlow(maxflow, r.flow)
           /\ stpaths' = stpaths + 1
           /\ SetResidual(Augment(residualgraph, r.path, r.flow))
    /\ UNCHANGED <<call, frame, loaded, caller, calls, results, driver, pc, delta,
                   phases, phasepaths>>
    /\ UNCHANGED ppVars

\* the iteration that finds no path: break and return (or the search raised)
FFReturn ==
    /\ pc = "ff_loop"
    /\ LET r == augmentedPath(residualgraph, source, sink)
       IN  /\ r.err # "none" \/ r.flow = 0
           /\ IF r.err # "none"
              THEN Finish(Raised(driver, r.err))
              ELSE Finish(Returned(driver, maxflow, stpaths))
    /\ UNCHANGED <<call, frame, loaded, graph, caller, calls, driver>>
    /\ UNCHANGED ffVars
    /\ UNCHANGED ppVars

(***************************************************************************)
(* scalingFordFulkerson.  The top-level file builds its own residual       *)
(* graph; the one in ScalingFordFulkerson/ takes the argument as the       *)
(* residual graph.                                                         *)
(***************************************************************************)
SFFBuild ==
    /\ \E d \in {"SFF", "SFFdir"} : Enter(d)
    /\ ResetPP
    /\ maxflow' = 0
    /\ stpaths' = 0
    /\ UNCHANGED <<call, frame, loaded, graph, caller>>
    /\ residualgraph' = IF Head(calls) = "SFF" THEN BuildResidual(graph) ELSE graph
    /\ LET d0 == compute_initial_delta(graph)
       IN  IF d0 = NoDelta
           THEN /\ delta' = 0
                /\ phases' = 0
                /\ Finish(Raised(Head(calls), DeltaError(graph)))
           ELSE /\ delta' = d0
                /\ phases' = IF d0 >= 1 THEN 1 ELSE 0
                /\ pc' = "sff_loop"
                /\ UNCHANGED results
    /\ phasepaths' = 0

SFFAugment ==
    /\ pc = "sff_loop"
    /\ delta >= 1
    /\ LET r == augmentedPathWithDelta(residualgraph, source, sink, delta)
       IN  /\ r.err = "none"
           /\ r.flow # 0
           /\ maxflow' = AddFlow(maxflow, r.flow)
           /\ stpaths' = stpaths + 1
           /\ SetResidual(Augment(residualgraph, r.path, r.flow))
    /\ phasepaths' = phasepaths + 1
    /\ UNCHANGED <<call, frame, loaded, caller, calls, results, driver, pc, delta, phases>>
    /\ UNCHANGED ppVars

\* Variant: delta drops to 0 at once.
HalveToZero(d) == 0

\* delta //= 2
Halve(d) == d \div 2

\* the inner loop breaks: delta //= 2
SFFHalve ==
    /\ pc = "sff_loop"
    /\ delta >= 1
    /\ LET r == augmentedPathWithDelta(residualgraph, source, sink, delta)
       IN  /\ r.err # "none" \/ r.flow = 0
           /\ IF r.err # "none"
              THEN /\ Finish(Raised(driver, r.err))
                   /\ UNCHANGED <<delta, phases, phasepaths>>
              ELSE /\ delta' = Halve(delta)
                   /\ phases' = IF Halve(delta) >= 1 THEN phases + 1 ELSE phases
                   /\ phasepaths' = 0
                   /\ UNCHANGED <<results, pc>>
    /\ UNCHANGED <<call, frame, loaded, graph, caller, calls, driver, residualgraph, maxflow, stpaths>>
    /\ UNCHANGED ppVars

SFFReturn ==
    /\ pc = "sff_loop"
    /\ delta < 1
    /\ Finish(Returned(driver, maxflow, stpaths))
    /\ UNCHANGED <<call, frame, loaded, graph, caller, calls, driver>>
    /\ UNCHANGED ffVars
    /\ UNCHANGED ppVars

(***************************************************************************)
(* PreflowPush.  flow, excess and height are defaultdicts: every entry     *)
(* reads 0 until it is written.                                            *)
(***************************************************************************)
Residual(g, fl, x, y) == g.cap[<<x, y>>] - fl[<<x, y>>]

\* _initialize_preflow, the loop over the arcs that leave the source
RECURSIVE Saturate(_, _, _)
Saturate(g, nbrs, st) ==
    IF nbrs = <<>> THEN st
    ELSE LET v == Head(nbrs)
             c == g.cap[<<source, v>>]
         IN  IF c > 0
             THEN LET f1 == [st.flow EXCEPT ![<<source, v>>] = c]
                      f2 == [f1 EXCEPT ![<<v, source>>] = -c]
                      e1 == [st.excess EXCEPT ![v] = c]
                      e2 == [e1 EXCEPT ![source] = @ - c]
                  IN  Bind([flow |-> f2, excess |-> e2],
                           LAMBDA st1 : Saturate(g, Tail(nbrs), st1))
             ELSE Saturate(g, Tail(nbrs), st)

\* PreflowPush.__init__ and _initialize_preflow
PreflowInit ==
    /\ Enter("PP")
    /\ maxflow' = 0
    /\ stpaths' = 0
    /\ delta' = 0
    /\ phases' = 0
    /\ phasepaths' = 0
    /\ residualgraph' = EmptyGraph
    /\ active' = <<>>
    /\ u' = "none"
    /\ old_height' = 0
    /\ idx' = 0
    /\ pushed' = FALSE
    /\ UNCHANGED <<call, frame, loaded, graph, caller>>
    /\ height' = [ZeroNodes EXCEPT ![source] = Len(graph.verts)]
    /\ IF ~HasNode(graph, source)
       THEN /\ flow' = ZeroFlow
            /\ excess' = ZeroNodes
            /\ Finish(Raised("PP", "KeyError"))
       ELSE /\ LET st == Saturate(graph, graph.adj[source],
                                  [flow |-> ZeroFlow, excess |-> ZeroNodes])
               IN  /\ flow' = st.flow
                   /\ excess' = st.excess
            /\ pc' = "pp_new"
            /\ UNCHANGED results

\* max_flow, lines 187-191: the initial queue of active vertices
MaxFlowStart ==
    /\ pc = "pp_new"
    /\ active' = SelectSeq(graph.verts,
                           LAMBDA v : v # source /\ v # sink /\ excess[v] > 0)
    /\ pc' = "pp_loop"
    /\ UNCHANGED <<call, frame, loaded, graph, caller, calls, results, driver>>
    /\ UNCHANGED ffVars
    /\ UNCHANGED <<flow, excess, height, u, old_height, idx, pushed>>

\* u = active.popleft(); skip it when it has no excess, else start _discharge(u)
PopActive ==
    /\ pc = "pp_loop"
    /\ active # <<>>
    /\ u' = Head(active)
    /\ active' = Tail(active)
    /\ IF excess[Head(active)] = 0
       THEN UNCHANGED <<pc, old_height, idx, pushed>>
       ELSE /\ old_height' = height[Head(active)]
            /\ idx' = 1
            /\ pushed' = FALSE
            /\ pc' = "pp_discharge"
    /\ UNCHANGED <<call, frame, loaded, graph, caller, calls, results, driver>>
    /\ UNCHANGED ffVars
    /\ UNCHANGED <<flow, excess, height>>

\* Variant: no arc ever passes the test.
AdmissibleNever(x, y) == FALSE

\* the test of _discharge, line 171
Admissible(x, y) ==
    Residual(graph, flow, x, y) > 0 /\ height[x] = height[y] + 1

\* positions of the for loop of _discharge, from idx on, that push
PushAt == {k \in idx..Len(graph.adj[u]) : Admissible(u, graph.adj[u][k])}

FirstOf(S) == CHOOSE k \in S : \A j \in S : k <= j

\* Variant: one unit is pushed, whatever the excess and the arc allow.
PushDeltaOne(x, y) == 1

\* Variant: the whole excess is pushed, whatever the arc can take.
PushDeltaExcess(x, y) == excess[x]

\* _push(u, v): the amount moved
PushDelta(x, y) == Min(excess[x], Residual(graph, flow, x, y))

\* Variant: the reverse entry of the flow table is not updated.
PushFlowForwardOnly(fl, x, y, d) == [fl EXCEPT ![<<x, y>>] = @ + d]

\* _push(u, v), lines 125-126 and 129-130
PushFlow(fl, x, y, d) == [fl EXCEPT ![<<x, y>>] = @ + d, ![<<y, x>>] = @ - d]

\* Variant: the pushing node is debited twice the amount.
PushExcessDouble(ex, x, y, d) == [ex EXCEPT ![x] = @ - 2 * d, ![y] = @ + d]

PushExcess(ex, x, y, d) == [ex EXCEPT ![x] = @ - d, ![y] = @ + d]

\* the for loop of _discharge advances to the next neighbour it can push to
Push ==
    /\ pc = "pp_discharge"
    /\ excess[u] > 0
    /\ PushAt # {}
    /\ LET k == FirstOf(PushAt)
           v == graph.adj[u][k]
           d == PushDelta(u, v)
       IN  /\ flow' = PushFlow(flow, u, v, d)
           /\ excess' = PushExcess(excess, u, v, d)
           /\ idx' = k + 1
    /\ pushed' = TRUE
    /\ UNCHANGED <<call, frame, loaded, graph, caller, calls, results, driver, pc>>
    /\ UNCHANGED ffVars
    /\ UNCHANGED <<height, active, u, old_height>>

\* _relabel(u): heights of the neighbours with residual capacity
RelabelHeights(x) ==
    {height[y] : y \in {z \in Range(graph.adj[x]) : Residual(graph, flow, x, z) > 0}}

MinOf(S) == CHOOSE x \in S : \A y \in S : x <= y

\* Variant: the relabel lowers the height by one.
NewHeightDown(x) == height[x] - 1

\* Variant: the relabel adds twice the number of nodes instead of 1.
NewHeightFar(x) ==
    IF RelabelHeights(x) = {} THEN height[x]
    ELSE MinOf(RelabelHeights(x)) + 2 * Cardinality(Nodes)

\* Variant: the relabel leaves the height as it is.
NewHeightStay(x) == height[x]

\* Variant: the relabel adds 2 to the minimum instead of 1.
NewHeightPlusTwo(x) ==
    IF RelabelHeights(x) = {} THEN height[x] ELSE MinOf(RelabelHeights(x)) + 2

NewHeight(x) ==
    IF RelabelHeights(x) = {} THEN height[x] ELSE MinOf(RelabelHeights(x)) + 1

\* the for loop ended without a push: relabel, then the while loop goes round
Relabel ==
    /\ pc = "pp_discharge"
    /\ excess[u] > 0
    /\ PushAt = {}
    /\ ~pushed
    /\ NewHeight(u) <= MaxHeight
    /\ height' = [height EXCEPT ![u] = NewHeight(u)]
    /\ idx' = 1
    /\ UNCHANGED <<call, frame, loaded, graph, caller, calls, results, driver, pc>>
    /\ UNCHANGED ffVars
    /\ UNCHANGED <<flow, excess, active, u, old_height, pushed>>

\* the for loop ended after a push with excess left: the while loop goes round
NextPass ==
    /\ pc = "pp_discharge"
    /\ excess[u] > 0
    /\ PushAt = {}
    /\ pushed
    /\ idx' = 1
    /\ pushed' = FALSE
    /\ UNCHANGED <<call, frame, loaded, graph, caller, calls, results, driver, pc>>
    /\ UNCHANGED ffVars
    /\ UNCHANGED <<flow, excess, height, active, u, old_height>>

\* Variant: no neighbour is put on the queue.
AppendActiveNone(q, nbrs) == q

\* max_flow, lines 209-213: neighbours of x that became active
RECURSIVE AppendActive(_, _)
AppendActive(q, nbrs) ==
    IF nbrs = <<>> THEN q
    ELSE LET v == Head(nbrs)
         IN  IF v # source /\ v # sink /\ excess[v] > 0 /\ v \notin Range(q)
             THEN Bind(Append(q, v), LAMBDA q1 : AppendActive(q1, Tail(nbrs)))
             ELSE AppendActive(q, Tail(nbrs))

\* Variant: the node is put back at the back of the queue.
RequeueBack(q, x) == IF height[x] > old_height THEN Append(q, x) ELSE q

\* Variant: the node is put back at the front twice.
RequeueTwice(q, x) == IF height[x] > old_height THEN <<x, x>> \o q ELSE q

\* max_flow, lines 205-207
Requeue(q, x) == IF height[x] > old_height THEN <<x>> \o q ELSE q

\* _discharge(u) returns; max_flow puts u and its neighbours on the queue
DischargeReturn ==
    /\ pc = "pp_discharge"
    /\ ~(excess[u] > 0)
    /\ active' = AppendActive(Requeue(active, u), graph.adj[u])
    /\ pc' = "pp_loop"
    /\ UNCHANGED <<call, frame, loaded, graph, caller, calls, results, driver>>
    /\ UNCHANGED ffVars
    /\ UNCHANGED <<flow, excess, height, u, old_height, idx, pushed>>

\* the queue is empty: return self.excess[self.sink]
MaxFlowReturn ==
    /\ pc = "pp_loop"
    /\ active = <<>>
    /\ Finish(Returned("PP", excess[sink], 0))
    /\ UNCHANGED <<call, frame, loaded, graph, caller, calls, driver>>
    /\ UNCHANGED ffVars
    /\ UNCHANGED ppVars

Next ==
    \/ FFBuild
    \/ FFAugment
    \/ FFReturn
    \/ SFFBuild
    \/ SFFAugment
    \/ SFFHalve
    \/ SFFReturn
    \/ PreflowInit
    \/ MaxFlowStart
    \/ PopActive
    \/ Push
    \/ Relabel
    \/ NextPass
    \/ DischargeReturn
    \/ MaxFlowReturn

Spec == Init /\ [][Next]_vars

\* The interpreter runs the one thread there is: a run that can step does step.
SpecFair == Spec /\ WF_vars(Next)

(***************************************************************************)
(* A caller that invokes the same driver twice on one graph object.        *)
(* automated_fordfulkerson imports FordFulkerson/FordFulkerson.py; every   *)
(* other driver behaves the same from its main block and imported.         *)
(***************************************************************************)
InitReuse ==
    /\ InitWith(ValidFiles, {<<d, d>> : d \in Drivers}, {"main", "automated"})
    /\ caller = "automated" => Head(calls) = "FFdir"

SpecReuse == InitReuse /\ [][Next]_vars

\* The three drivers on a file the input format forbids.
InitInvalid == InitWith(InvalidFiles, {<<"FF", "SFF", "PP">>}, {"main"})

SpecInvalid == InitInvalid /\ [][Next]_vars

\* The interpreter keeps running the driver on such a file too.
SpecInvalidFair == SpecInvalid /\ WF_vars(Next)

(***************************************************************************)
(* Functions called on their own.  call holds the function's name and its  *)
(* arguments, frame its local variables; the drivers stay idle.            *)
(***************************************************************************)
driverVars == <<loaded, graph, caller, calls, results, driver, pc,
                residualgraph, maxflow, stpaths, delta, phases, phasepaths,
                flow, excess, height, active, u, old_height, idx, pushed>>

\* the drivers' variables while a function is called on its own
InitIdle ==
    /\ loaded = EmptyGraph
    /\ graph = EmptyGraph
    /\ caller = "main"
    /\ calls = <<>>
    /\ results = <<>>
    /\ driver = "none"
    /\ pc = "call"
    /\ residualgraph = EmptyGraph
    /\ maxflow = 0
    /\ stpaths = 0
    /\ delta = 0
    /\ phases = 0
    /\ phasepaths = 0
    /\ flow = ZeroFlow
    /\ excess = ZeroNodes
    /\ height = ZeroNodes
    /\ active = <<>>
    /\ u = "none"
    /\ old_height = 0
    /\ idx = 0
    /\ pushed = FALSE

(***************************************************************************)
(* load_graph reading a text file.  A line of text is                      *)
(*   lead  : the number of blanks before its first word                    *)
(*   words : its words, one blank between two of them                      *)
(*   trail : the number of blanks after its last word                      *)
(***************************************************************************)
Line(l, w, t) == [lead |-> l, words |-> w, trail |-> t]

\* line.strip()
strip(line) == [line EXCEPT !.lead = 0, !.trail = 0]

\* .split()
split(line) == line.words

\* int(): the literals it converts; on any other word it raises ValueError
IntOf == ("0" :> 0) @@ ("1" :> 1) @@ ("2" :> 2)

\* Longest text file read.
MaxLines == 3

TextLines ==
    { Line(0, <<"s", "a", "1">>, 0),
      Line(0, <<"a", "t", "2">>, 0),
      Line(1, <<"a", "b", "1">>, 1),
      Line(0, <<"a", "b">>, 0),
      Line(2, <<"b", "t">>, 0),
      Line(0, <<>>, 0),
      Line(0, <<"s">>, 1),
      Line(0, <<"a", "b", "1", "1">>, 0),
      Line(0, <<"b", "t", "x">>, 0) }

TextFiles == UNION {[1..n -> TextLines] : n \in 0..MaxLines}

LoadFns == {"Graphinjest.load_graph", "PreflowPush.load_graph"}

NoError == [type |-> "none", line_num |-> 0, content |-> Line(0, <<>>, 0)]

\* Variant: the line number counted from 0.
ParseErrorFromZero(k, line) ==
    [type |-> "ValueError", line_num |-> k - 1, content |-> strip(line)]

\* the ValueError of lines 32-35: f"Error on line {line_num}: '{line.strip()}'"
ParseError(k, line) ==
    [type |-> "ValueError", line_num |-> k, content |-> strip(line)]

\* the ValueError int() raises: it quotes the word and names no line
IntError(w) ==
    [type |-> "ValueError", line_num |-> 0, content |-> Line(0, <<w>>, 0)]

InitLoad ==
    /\ \E fn \in LoadFns, f \in TextFiles : call = [fn |-> fn, file |-> f]
    /\ frame = [outcome |-> "running", graph |-> EmptyGraph, edge_count |-> 0,
                line_num |-> 0, error |-> NoError, ret |-> <<>>]

\* one iteration of the for loop over the lines of the file
LoadGraphLine ==
    /\ call.fn \in LoadFns
    /\ frame.outcome = "running"
    /\ frame.line_num < Len(call.file)
    /\ LET k == frame.line_num + 1
           line == call.file[k]
           parts == split(strip(line))
       IN  frame' =
             IF Len(parts) # 3
             THEN [frame EXCEPT !.line_num = k, !.outcome = "raised",
                                !.error = ParseError(k, line)]
             ELSE IF parts[3] \notin DOMAIN IntOf
             THEN [frame EXCEPT !.line_num = k, !.outcome = "raised",
                                !.error = IntError(parts[3])]
             ELSE [frame EXCEPT !.line_num = k,
                                !.graph = LoadLine(@, parts[1], parts[2], IntOf[parts[3]]),
                                !.edge_count = @ + 1]
    /\ UNCHANGED <<call, driverVars>>

\* the file is read: return graph, num_nodes, edge_count (PreflowPush: graph)
LoadGraphReturn ==
    /\ call.fn \in LoadFns
    /\ frame.outcome = "running"
    /\ frame.line_num = Len(call.file)
    /\ frame' = [frame EXCEPT
                    !.outcome = "returned",
                    !.ret = IF call.fn = "Graphinjest.load_graph"
                            THEN <<frame.graph, Len(frame.graph.verts), frame.edge_count>>
                            ELSE <<frame.graph>>]
    /\ UNCHANGED <<call, driverVars>>

(***************************************************************************)
(* compute_initial_delta called on a graph whose source has the arcs       *)
(* s->a and s->b, or s->a alone, or no arc at all.                         *)
(***************************************************************************)
\* Largest capacity on an arc of the source in these calls.
MaxDeltaCap == 9

DeltaGraphs ==
    {load_graph(<< <<"s", "a", c1>>, <<"s", "b", c2>> >>) :
        c1 \in 0..MaxDeltaCap, c2 \in 0..MaxDeltaCap}
    \cup {load_graph(<< <<"s", "a", c1>> >>) : c1 \in 0..MaxDeltaCap}
    \cup {AddNode(EmptyGraph, source)}

InitDelta ==
    /\ \E g \in DeltaGraphs : call = [fn |-> "compute_initial_delta", graph |-> g]
    /\ frame = [outcome |-> "running", ret |-> 0, error |-> "none"]

ComputeDelta ==
    /\ call.fn = "compute_initial_delta"
    /\ frame.outcome = "running"
    /\ LET d == compute_initial_delta(call.graph)
       IN  frame' = IF d = NoDelta
                    THEN [frame EXCEPT !.outcome = "raised", !.error = DeltaError(call.graph)]
                    ELSE [frame EXCEPT !.outcome = "returned", !.ret = d]
    /\ UNCHANGED <<call, driverVars>>

(***************************************************************************)
(* augmentedPath and augmentedPathWithDelta called on a residual graph,    *)
(* one iteration of the while loop per step.  frame.pushes counts the      *)
(* stack.append calls, frame.repops the iterations that pop a node already *)
(* visited; frame.repushed records that such an iteration appended         *)
(* something.                                                              *)
(***************************************************************************)
SearchFns == {"augmentedPath", "augmentedPathWithDelta"}

SearchGraphs == {BuildResidual(load_graph(f)) : f \in ValidFiles}

InitSearch ==
    /\ \E g \in SearchGraphs :
          \/ call = [fn |-> "augmentedPath", rg |-> g, delta |-> 0]
          \/ \E d \in 1..MaxCap :
                call = [fn |-> "augmentedPathWithDelta", rg |-> g, delta |-> d]
    /\ frame = [outcome |-> "running",
                stack |-> <<[node |-> source, flow |-> Inf, path |-> <<>>]>>,
                visited |-> {}, pushes |-> 0, repops |-> 0, repushed |-> FALSE,
                path |-> NoPath, flow |-> 0, error |-> "none"]

\* Variant: only the first neighbour is looked at.
ExpandFirst(entry, seen, rest) ==
    IF call.fn = "augmentedPath"
    THEN PushNeighbours(call.rg, entry, SubSeq(call.rg.adj[entry.node], 1, 1), seen, rest)
    ELSE PushNeighboursDelta(call.rg, entry, SubSeq(call.rg.adj[entry.node], 1, 1), seen, rest,
                             call.delta)

\* Variant: every entry is appended twice.
ExpandTwice(entry, seen, rest) ==
    LET st == PushNeighbours(call.rg, entry, call.rg.adj[entry.node], seen, rest)
    IN  st \o SubSeq(st, Len(rest) + 1, Len(st))

\* Variant: node b is not kept in the visited set.
ExpandForgetB(entry, seen, rest) ==
    IF call.fn = "augmentedPath"
    THEN PushNeighbours(call.rg, entry, call.rg.adj[entry.node], seen \ {"b"}, rest)
    ELSE PushNeighboursDelta(call.rg, entry, call.rg.adj[entry.node], seen \ {"b"}, rest,
                             call.delta)

\* the for loop over the neighbours of the popped node
Expand(entry, seen, rest) ==
    IF call.fn = "augmentedPath"
    THEN PushNeighbours(call.rg, entry, call.rg.adj[entry.node], seen, rest)
    ELSE PushNeighboursDelta(call.rg, entry, call.rg.adj[entry.node], seen, rest, call.delta)

\* an iteration that pops a node other than the sink
SearchPop ==
    /\ call.fn \in SearchFns
    /\ frame.outcome = "running"
    /\ frame.stack # <<>>
    /\ LET entry == frame.stack[Len(frame.stack)]
           rest == SubSeq(frame.stack, 1, Len(frame.stack) - 1)
           seen == frame.visited \cup {entry.node}
       IN  /\ entry.node # sink
           /\ frame' =
                IF ~HasNode(call.rg, entry.node)
                THEN [frame EXCEPT !.stack = rest, !.outcome = "raised", !.error = "KeyError"]
                ELSE LET st == Expand(entry, seen, rest)
                     IN  [frame EXCEPT
                            !.stack = st,
                            !.visited = seen,
                            !.pushes = @ + (Len(st) - Len(rest)),
                            !.repops = @ + (IF entry.node \in frame.visited THEN 1 ELSE 0),
                            !.repushed = @ \/ (entry.node \in frame.visited /\ Len(st) > Len(rest))]
    /\ UNCHANGED <<call, driverVars>>

\* the iteration that pops the sink: return path, flow
SearchReturn ==
    /\ call.fn \in SearchFns
    /\ frame.outcome = "running"
    /\ frame.stack # <<>>
    /\ LET entry == frame.stack[Len(frame.stack)]
       IN  /\ entry.node = sink
           /\ frame' = [frame EXCEPT
                          !.stack = SubSeq(frame.stack, 1, Len(frame.stack) - 1),
                          !.outcome = "returned",
                          !.path = entry.path,
                          !.flow = entry.flow]
    /\ UNCHANGED <<call, driverVars>>

\* the stack is empty: return None, 0
SearchFail ==
    /\ call.fn \in SearchFns
    /\ frame.outcome = "running"
    /\ frame.stack = <<>>
    /\ frame' = [frame EXCEPT !.outcome = "returned", !.path = NoPath, !.flow = 0]
    /\ UNCHANGED <<call, driverVars>>

InitUnit ==
    /\ InitIdle
    /\ InitLoad \/ InitDelta \/ InitSearch

NextUnit ==
    \/ LoadGraphLine
    \/ LoadGraphReturn
    \/ ComputeDelta
    \/ SearchPop
    \/ SearchReturn
    \/ SearchFail

SpecUnit == InitUnit /\ [][NextUnit]_vars

\* A call that can take a step does take it.
SpecUnitFair == SpecUnit /\ WF_vars(NextUnit)

(***************************************************************************)
(* Reference notions the properties are stated against.                    *)
(***************************************************************************)
CutCapacity(g, S) ==
    SumOver({e \in Arcs : e[1] \in S /\ e[2] \notin S}, g.cap)

Cuts == {S \in SUBSET Nodes : source \in S /\ sink \notin S}

MinCut(g) ==
    LET caps == {CutCapacity(g, S) : S \in Cuts} IN MinOf(caps)

RECURSIVE ReachFrom(_, _)
ReachFrom(g, S) ==
    LET more == {y \in Nodes : \E x \in S : g.cap[<<x, y>>] > 0}
    IN  IF more \subseteq S THEN S ELSE ReachFrom(g, S \cup more)

SinkReachable(g) == sink \in ReachFrom(g, {source})

Finished == pc = "idle" /\ calls = <<>>

ResultOf(d) == {results[k] : k \in {j \in 1..Len(results) : results[j].alg = d}}

\* C1: Cross-algorithm agreement: once fordFulkerson, scalingFordFulkerson and
\* preflow_push_max_flow have each run on the loaded graph (each on its own
\* residual state), all three have returned and returned the same flow value.
C1_Agreement ==
    (Finished /\ Len(results) = 3) =>
        /\ \A k \in 1..3 : results[k].outcome = "returned"
        /\ results[1].flow = results[2].flow
        /\ results[2].flow = results[3].flow

C1_Witness ==
    /\ Finished
    /\ Len(results) = 3
    /\ {results[k].alg : k \in 1..3} = {"FF", "SFF", "PP"}
    /\ results[3].flow >= 3
    /\ loaded.cap[<<"a", "b">>] > 0
    /\ loaded.cap[<<"b", "a">>] > 0

\* C2: The value the Ford-Fulkerson driver returns is the maximum s-t flow: it
\* equals the minimum capacity over all s-t cuts of the input graph.
C2_FordFulkersonIsMinCut ==
    \A r \in ResultOf("FF") : r.outcome = "returned" /\ r.flow = MinCut(loaded)

C2_Witness ==
    /\ \E r \in ResultOf("FF") : r.flow = 2 /\ r.paths = 2
    /\ CutCapacity(loaded, {source}) > 2
    /\ CutCapacity(loaded, Nodes \ {sink}) > 2

\* C3: fordFulkerson of FordFulkerson/FordFulkerson.py, called with the loaded
\* capacity graph (from its main block or from run_ff_on_graph), returns the
\* maximum s-t flow value together with the number of augmenting paths applied.
C3_DirFordFulkersonReturnsMaxFlow ==
    (Len(results) >= 1 /\ results[1].alg = "FFdir") =>
        /\ results[1].outcome = "returned"
        /\ results[1].flow = MinCut(loaded)
        /\ (results[1].paths = 0) = (MinCut(loaded) = 0)

Inflow(v) == SumOver({e \in Arcs : e[2] = v /\ flow[e] > 0}, flow)
Outflow(v) == SumOver({e \in Arcs : e[1] = v /\ flow[e] > 0}, flow)

Inner == Nodes \ {source, sink}

PPReturned ==
    /\ pc = "idle"
    /\ driver = "PP"
    /\ results[Len(results)].outcome = "returned"

\* C4: Flow conservation at termination of push-relabel: when max_flow has
\* returned, every node other than source and sink has excess 0 and its total
\* inflow equals its total outflow in the final flow table.
C4_Conservation ==
    PPReturned => \A v \in Inner : excess[v] = 0 /\ Inflow(v) = Outflow(v)

C4_Witness ==
    /\ PPReturned
    /\ excess[sink] >= 2
    /\ \A v \in Inner : Inflow(v) > 0
    /\ excess[sink] < loaded.cap[<<"s", "a">>] + loaded.cap[<<"s", "b">>]

\* the flow a driver has assigned to an arc
FlowOn(e) ==
    IF driver = "PP" THEN flow[e]
    ELSE IF driver \in {"FF", "SFF"} THEN loaded.cap[e] - residualgraph.cap[e]
    ELSE 0

Rev(e) == <<e[2], e[1]>>

\* C5 as stated: in every reachable state of every driver, every input edge
\* (u,v) with capacity c has 0 <= flow(u,v) <= c, also when (v,u) is an input
\* edge of positive capacity too.
C5_CapacityRespect ==
    \A e \in Arcs : loaded.cap[e] > 0 => (0 <= FlowOn(e) /\ FlowOn(e) <= loaded.cap[e])

\* C5: in every reachable state of every driver, every input edge (u,v) with
\* capacity c has -capacity(v,u) <= flow(u,v) <= c; so 0 <= flow(u,v) <= c
\* whenever the opposite arc (v,u) has capacity 0.
C5_NetFlowWithinCapacities ==
    \A e \in Arcs :
        /\ 0 - loaded.cap[Rev(e)] <= FlowOn(e)
        /\ FlowOn(e) <= loaded.cap[e]

C5_Witness ==
    \E e \in Arcs :
        /\ loaded.cap[e] > 0
        /\ loaded.cap[Rev(e)] > 0
        /\ FlowOn(e) = 0 - loaded.cap[Rev(e)]
        /\ driver = "PP"

\* C6: Skew symmetry under every mutation: in fordFulkerson and
\* scalingFordFulkerson residual(u,v) + residual(v,u) stays equal to
\* capacity(u,v) + capacity(v,u) through every augmentation, and in
\* push-relabel flow[u][v] = -flow[v][u] for every pair after initialization
\* and after every push.
C6_SkewSymmetry ==
    /\ driver \in {"FF", "SFF"} =>
          \A e \in Arcs :
              residualgraph.cap[e] + residualgraph.cap[Rev(e)]
                  = loaded.cap[e] + loaded.cap[Rev(e)]
    /\ driver = "PP" => \A e \in Arcs : flow[e] = 0 - flow[Rev(e)]

C6_Witness ==
    /\ driver = "PP"
    /\ pc = "pp_discharge"
    /\ pushed
    /\ flow[<<"a", "b">>] > 0
    /\ flow[<<"b", "t">>] > 0

\* C7: Monotonic progress: every augmentation the Ford-Fulkerson and scaling
\* drivers apply and count makes the accumulated flow strictly larger, and the
\* accumulated flow is never negative.
C7_MonotonicProgress ==
    /\ [](maxflow >= 0)
    /\ [][stpaths' = stpaths + 1 => maxflow' > maxflow]_vars

C7_Witness ==
    /\ driver = "SFFdir"
    /\ stpaths >= 2
    /\ maxflow >= 3

\* C8: Disconnected sink: when the sink cannot be reached from the source along
\* edges of positive capacity, every driver terminates, every returned flow
\* value is 0 and no augmentation is performed.
C8_DisconnectedSink ==
    /\ [](~SinkReachable(loaded) =>
            /\ stpaths = 0
            /\ \A k \in 1..Len(results) :
                   /\ results[k].outcome = "returned"
                   /\ results[k].flow = 0
                   /\ results[k].paths = 0)
    /\ (~SinkReachable(loaded)) ~> (Finished /\ Len(results) = 3)

C8_Witness ==
    /\ Finished
    /\ Len(results) = 3
    /\ ~SinkReachable(loaded)
    /\ loaded.cap[<<"s", "a">>] > 0
    /\ loaded.cap[<<"a", "b">>] > 0
    /\ height["a"] > Len(graph.verts)

\* C9: A driver invocation leaves the caller's capacity graph unchanged: after
\* a driver returns, every capacity stored in the graph object passed in equals
\* its value before the call, and a second invocation on the same object
\* returns the same flow value as the first.
C9_CallerGraphUnchanged ==
    /\ (pc = "idle" /\ Len(results) >= 1 /\ results[Len(results)].outcome = "returned")
          => graph = loaded
    /\ (Len(results) = 2 /\ results[1].outcome = "returned")
          => (results[2].outcome = "returned" /\ results[2].flow = results[1].flow)

\* C10: Invalid input is fatal before the algorithm starts: on a graph with a
\* negative capacity, or without the source or the sink node, every run fails
\* with an error, no augmentation, push or relabel is performed and no flow
\* value is returned.
C10_InvalidInputIsFatal ==
    /\ stpaths = 0
    /\ ~pushed
    /\ \A v \in Nodes \ {source} : height[v] = 0
    /\ \A k \in 1..Len(results) : results[k].outcome = "raised"

\* the lines of a file whose whitespace-separated token count is not 3
BadLines(f) == {k \in 1..Len(f) : Len(f[k].words) # 3}

FirstBad(f) == MinOf(BadLines(f))

\* every line before line k carries an integer literal as its third token
IntsBefore(f, k) == \A j \in 1..(k - 1) : f[j].words[3] \in DOMAIN IntOf

\* C11 as stated: load_graph fails on the first line whose token count is not
\* 3, the error names that line's 1-based number and its raw content, and no
\* graph is returned.
C11_ParseErrorNamesRawLine ==
    (call.fn \in LoadFns /\ BadLines(call.file) # {}) =>
        LET k == FirstBad(call.file)
        IN  /\ frame.line_num <= k
            /\ frame.outcome # "returned"
            /\ frame.ret = <<>>
            /\ frame.line_num = k =>
                  /\ frame.outcome = "raised"
                  /\ frame.error.type = "ValueError"
                  /\ frame.error.line_num = k
                  /\ frame.error.content = call.file[k]

\* C11: load_graph never reads past the first line whose token count is not 3
\* and returns no graph; when the third token of every earlier line is an
\* integer literal it fails on that line with an error that names the line's
\* 1-based number and the line's content with leading and trailing blanks
\* removed; otherwise it fails on the first earlier line whose third token is
\* not an integer literal, with an error that names no line number.
C11_ParseErrorNamesStrippedLine ==
    (call.fn \in LoadFns /\ BadLines(call.file) # {}) =>
        LET k == FirstBad(call.file)
        IN  /\ frame.line_num <= k
            /\ frame.outcome # "returned"
            /\ frame.ret = <<>>
            /\ (frame.line_num = k /\ IntsBefore(call.file, k)) =>
                  /\ frame.outcome = "raised"
                  /\ frame.error.type = "ValueError"
                  /\ frame.error.line_num = k
                  /\ frame.error.content = Line(0, call.file[k].words, 0)
            /\ (frame.outcome = "raised" /\ ~IntsBefore(call.file, k)) =>
                  /\ frame.line_num < k
                  /\ ~IntsBefore(call.file, frame.line_num + 1)
                  /\ IntsBefore(call.file, frame.line_num)
                  /\ frame.error.type = "ValueError"
                  /\ frame.error.line_num = 0

C11_Witness ==
    /\ call.fn \in LoadFns
    /\ frame.outcome = "raised"
    /\ frame.error.line_num = 3
    /\ call.file[3].lead > 0
    /\ call.file[1].lead > 0
    /\ Len(frame.graph.verts) = 3

\* the maximum capacity over the arcs stored for the source
SourceMax(g) == MaxOf({g.cap[<<source, v>>] : v \in Range(g.adj[source])})

IsPowerOfTwo(d) == \E k \in 0..d : 2 ^ k = d

DeltaReturned ==
    /\ call.fn = "compute_initial_delta"
    /\ frame.outcome = "returned"

NoPositiveSourceArc(g) == \A v \in Nodes : g.cap[<<source, v>>] <= 0

\* C13: Zero-flow case of the scaling driver: when the source has no outgoing
\* edge of positive capacity, the initial delta is 0, scalingFordFulkerson
\* returns flow value 0 at once, no search phase is run and no exception is
\* raised.
C13_ZeroFlowImmediately ==
    (driver = "SFF" /\ NoPositiveSourceArc(loaded)) =>
        /\ delta = 0
        /\ pc # "sff_loop"
        /\ \A r \in ResultOf("SFF") : r.outcome = "returned" /\ r.flow = 0

\* the test an arc must pass to be followed by the search that is called
MeetsThreshold(c) ==
    IF call.fn = "augmentedPath" THEN c > 0 ELSE c >= call.delta

PathReturned ==
    /\ call.fn \in SearchFns
    /\ frame.outcome = "returned"
    /\ frame.path # NoPath

Contiguous(path) ==
    /\ path[1][1] = source
    /\ path[Len(path)][2] = sink
    /\ \A k \in 1..(Len(path) - 1) : path[k][2] = path[k + 1][1]

\* what the search operator of the drivers computes for the same arguments
DriverSearch ==
    IF call.fn = "augmentedPath"
    THEN augmentedPath(call.rg, source, sink)
    ELSE augmentedPathWithDelta(call.rg, source, sink, call.delta)

\* C14: Whenever augmentedPath (threshold residual > 0) or
\* augmentedPathWithDelta (threshold residual >= delta, delta >= 1) returns a
\* path, the path is a contiguous sequence of (from, to) pairs from the source
\* to the sink, every pair on it is an arc whose residual capacity meets the
\* threshold, and the returned bottleneck is the minimum residual capacity over
\* the arcs of the path.  The drivers' search returns the same path and
\* bottleneck.
C14_PathAndBottleneck ==
    /\ PathReturned =>
          /\ Contiguous(frame.path)
          /\ \A k \in 1..Len(frame.path) :
                /\ HasArc(call.rg, frame.path[k][1], frame.path[k][2])
                /\ MeetsThreshold(call.rg.cap[frame.path[k]])
          /\ frame.flow = MinOf({call.rg.cap[frame.path[k]] : k \in 1..Len(frame.path)})
    /\ (call.fn \in SearchFns /\ frame.outcome = "returned") =>
          /\ DriverSearch.path = frame.path
          /\ DriverSearch.flow = frame.flow

C14_Witness ==
    /\ PathReturned
    /\ call.fn = "augmentedPathWithDelta"
    /\ call.delta = 1
    /\ Len(frame.path) = 3
    /\ frame.flow = 1
    /\ call.rg.cap[frame.path[1]] = 2
    /\ call.rg.cap[frame.path[3]] = 2

\* the nodes a path of stored arcs meeting the threshold leads to from S
RECURSIVE ReachOver(_, _)
ReachOver(rg, S) ==
    LET more == {y \in Nodes : \E x \in S :
                    HasArc(rg, x, y) /\ MeetsThreshold(rg.cap[<<x, y>>])}
    IN  IF more \subseteq S THEN S ELSE ReachOver(rg, S \cup more)

SearchReturned ==
    /\ call.fn \in SearchFns
    /\ frame.outcome = "returned"

\* C15: Search completeness: augmentedPath returns (None, 0) if and only if no
\* path from the source to the sink exists over arcs with residual capacity
\* > 0, augmentedPathWithDelta if and only if none exists over arcs with
\* residual capacity >= delta; in every other case the returned bottleneck is
\* a positive integer.  The search never raises on a residual graph.
C15_SearchCompleteness ==
    /\ call.fn \in SearchFns => frame.outcome # "raised"
    /\ SearchReturned =>
          /\ (frame.path = NoPath /\ frame.flow = 0)
                <=> (sink \notin ReachOver(call.rg, {source}))
          /\ frame.path # NoPath => frame.flow \in 1..MaxCap

C15_Witness ==
    /\ SearchReturned
    /\ call.fn = "augmentedPathWithDelta"
    /\ call.delta = 2
    /\ frame.path = NoPath
    /\ frame.flow = 0
    /\ SinkReachable(call.rg)
    /\ frame.repops > 0

\* the number of residual arcs with positive capacity
PositiveArcs(rg) ==
    Cardinality({e \in Arcs : HasArc(rg, e[1], e[2]) /\ rg.cap[e] > 0})

\* C16: Marking a node visited when it is popped bounds the search: in one call
\* of augmentedPath an iteration that pops an already visited node appends no
\* stack entry, the number of stack pushes of the call is at most the number of
\* residual arcs with positive capacity, and the call terminates.
C16_SearchBounded ==
    /\ [](call.fn = "augmentedPath" =>
            /\ ~frame.repushed
            /\ frame.pushes <= PositiveArcs(call.rg))
    /\ (call.fn = "augmentedPath") ~> (frame.outcome = "returned")

C16_Witness ==
    /\ call.fn = "augmentedPath"
    /\ frame.outcome = "returned"
    /\ frame.repops >= 1
    /\ frame.pushes = PositiveArcs(call.rg)
    /\ frame.pushes >= 3

\* C17: Scaling phases: in scalingFordFulkerson delta starts at a power of two
\* d0 and takes the values d0, d0/2, ..., 2, 1 in that order, every change is
\* an integer halving made only when the search with the current delta
\* returned no path, every augmentation applied while the threshold is delta
\* has bottleneck >= delta, and the driver returns exactly when delta is 0.
C17_ScalingPhases ==
    /\ [](pc = "sff_loop" => (delta = 0 \/ IsPowerOfTwo(delta)))
    /\ [][(pc = "idle" /\ pc' = "sff_loop") => delta' >= 1]_vars
    /\ [][(pc = "sff_loop" /\ delta' # delta) =>
            /\ delta >= 1
            /\ delta' * 2 = delta \/ (delta = 1 /\ delta' = 0)
            /\ augmentedPathWithDelta(residualgraph, source, sink, delta).flow = 0
            /\ maxflow' = maxflow
            /\ stpaths' = stpaths]_vars
    /\ [][(pc = "sff_loop" /\ stpaths' = stpaths + 1) =>
            /\ delta' = delta
            /\ maxflow' - maxflow >= delta]_vars
    /\ [][(pc = "sff_loop" /\ pc' = "idle") => delta = 0]_vars
    /\ [][(pc = "sff_loop" /\ delta = 0) => pc' = "idle"]_vars

C17_Witness ==
    /\ driver \in {"SFF", "SFFdir"}
    /\ pc = "sff_loop"
    /\ delta = 0
    /\ stpaths = 2
    /\ maxflow = 3

\* the sum of the residual capacities on the arcs that leave the source
SourceResidual == SumOver({e \in Arcs : e[1] = source}, residualgraph.cap)

SourceCapacity(g) == SumOver({e \in Arcs : e[1] = source}, g.cap)

\* C18: Ford-Fulkerson termination measure: every augmentation reduces the sum
\* of the residual capacities on the arcs leaving the source by exactly its
\* bottleneck, which is at least 1, no step increases that sum, fordFulkerson
\* applies at most (sum of input capacities out of the source) augmentations
\* and terminates.
C18_TerminationMeasure ==
    /\ [][(driver = "FF" /\ pc = "ff_loop" /\ stpaths' = stpaths + 1) =>
            /\ maxflow' - maxflow >= 1
            /\ SourceResidual' = SourceResidual - (maxflow' - maxflow)]_vars
    /\ [][(driver = "FF" /\ pc = "ff_loop") => SourceResidual' <= SourceResidual]_vars
    /\ [](driver = "FF" => stpaths <= SourceCapacity(loaded))
    /\ (driver = "FF" /\ pc = "ff_loop") ~> (driver = "FF" /\ pc = "idle")

C18_Witness ==
    /\ driver = "FF"
    /\ pc = "idle"
    /\ stpaths = 3
    /\ stpaths = SourceCapacity(loaded)
    /\ loaded.cap[<<"a", "s">>] > 0

PPRunning == pc \in {"pp_new", "pp_loop", "pp_discharge"}

NumNodes(g) == Cardinality(Range(g.verts))

\* C19: Push-relabel heights: after initialization the height of the source is
\* the number of nodes of the graph and every other height is 0; in every
\* later step of the run no height decreases, and the heights of the source
\* and of the sink never change.
C19_Heights ==
    /\ [](pc = "pp_new" =>
            /\ height[source] = NumNodes(loaded)
            /\ \A v \in Nodes \ {source} : height[v] = 0)
    /\ [][PPRunning =>
            /\ \A v \in Nodes : height'[v] >= height[v]
            /\ height'[source] = height[source]
            /\ height'[sink] = height[sink]]_vars

C19_Witness ==
    /\ pc = "pp_loop"
    /\ height[source] = 4
    /\ height[sink] = 0
    /\ height["a"] >= 5
    /\ height["b"] >= 1
    /\ excess[sink] > 0

\* C20: Height bound: in every reachable state of a push-relabel run on a graph
\* with |V| nodes every height is at most 2|V| - 1.  Every relabel raises the
\* height of the node it relabels by at least 1 and changes no other height,
\* and no other step of the run changes a height, so the heights, which start
\* at 0, admit at most |V| * (2|V| - 1) relabels in a run.
C20_HeightBound ==
    /\ [](\A v \in Nodes : height[v] <= 2 * NumNodes(loaded) - 1)
    /\ [][(PPRunning /\ height' # height) =>
            /\ pc = "pp_discharge"
            /\ height'[u] >= height[u] + 1
            /\ \A v \in Nodes \ {u} : height'[v] = height[v]]_vars
    /\ [][Relabel => height'[u] >= height[u] + 1]_vars

C20_Witness ==
    /\ PPRunning
    /\ height["a"] = 2 * NumNodes(loaded) - 2
    /\ height["b"] > NumNodes(loaded)

\* C21: Every call of _push(u, v) made by _discharge satisfies the push
\* precondition excess(u) > 0, residual(u,v) > 0 and height(u) = height(v) + 1;
\* it moves delta = min(excess(u), residual(u,v)) > 0 units, and immediately
\* afterwards excess(u) = 0 or residual(u,v) = 0.
C21_PushPrecondition ==
    [][(pc = "pp_discharge" /\ flow' # flow) =>
         \E v \in Range(graph.adj[u]) :
            LET r == graph.cap[<<u, v>>] - flow[<<u, v>>]
                d == flow'[<<u, v>>] - flow[<<u, v>>]
            IN  /\ excess[u] > 0
                /\ r > 0
                /\ height[u] = height[v] + 1
                /\ d > 0
                /\ d = (IF excess[u] < r THEN excess[u] ELSE r)
                /\ excess'[u] = excess[u] - d
                /\ excess'[v] = excess[v] + d
                /\ excess'[u] = 0 \/ graph.cap[<<u, v>>] - flow'[<<u, v>>] = 0]_vars

C21_Witness ==
    /\ pc = "pp_discharge"
    /\ pushed
    /\ excess[u] > 0
    /\ \E v \in Range(graph.adj[u]) :
          /\ graph.cap[<<u, v>>] = 1
          /\ flow[<<u, v>>] = 1
          /\ height[u] = height[v] + 1
          /\ excess[v] = 1

\* _relabel is about to be called on a node with excess and no neighbour with
\* residual capacity
Stuck ==
    /\ pc = "pp_discharge"
    /\ excess[u] > 0
    /\ ~pushed
    /\ \A v \in Range(graph.adj[u]) : graph.cap[<<u, v>>] - flow[<<u, v>>] <= 0

\* C22: Stuck-node detection: when relabel is invoked on a node u with
\* excess(u) > 0 that has no neighbour with residual(u,v) > 0, the engine
\* aborts the run with an error; it does not leave height(u) unchanged and
\* keep iterating the discharge loop.
C22_StuckNodeAborts ==
    Stuck ~> (/\ pc = "idle"
              /\ \E k \in 1..Len(results) :
                    results[k].alg = "PP" /\ results[k].outcome = "raised")

\* C23: Push-relabel termination: on every capacity graph with non-negative
\* integer capacities in which every arc has its reverse arc stored, every
\* _discharge call eventually returns and max_flow eventually reaches an empty
\* active queue and returns, also when the sink is unreachable and all excess
\* flows back to the source.
C23_PushRelabelTerminates ==
    /\ (pc = "pp_discharge") ~> (pc = "pp_loop")
    /\ (driver = "PP" /\ PPRunning) ~> (driver = "PP" /\ pc = "idle" /\ active = <<>>)

C23_Witness ==
    /\ PPReturned
    /\ active = <<>>
    /\ ~SinkReachable(loaded)
    /\ loaded.cap[<<"s", "a">>] > 0
    /\ loaded.cap[<<"s", "b">>] > 0
    /\ excess[source] = 0
    /\ height["a"] > NumNodes(loaded)
    /\ height["b"] > NumNodes(loaded)

\* C24: Queue discipline of the push-relabel main loop: nodes are taken from
\* the front of the active queue; after a node is discharged it is placed back
\* at the front if and only if its height is greater than before the
\* discharge, and then each neighbour that has positive excess, is neither
\* source nor sink and is not already queued is appended at the back, in
\* adjacency order.  The queue does not change while a node is discharged.
C24_QueueDiscipline ==
    /\ [][(pc = "pp_loop" /\ active # <<>>) =>
            /\ u' = Head(active)
            /\ active' = Tail(active)]_vars
    /\ [][(pc = "pp_discharge" /\ pc' = "pp_discharge") => active' = active]_vars
    /\ [][(pc = "pp_discharge" /\ pc' = "pp_loop") =>
            LET front == IF height[u] > old_height THEN <<u>> \o active ELSE active
                back == SelectSeq(graph.adj[u],
                            LAMBDA v : /\ excess[v] > 0
                                       /\ v \notin {source, sink}
                                       /\ v \notin Range(front))
            IN  active' = front \o back]_vars

C24_Witness ==
    /\ pc = "pp_loop"
    /\ Len(active) = 2
    /\ active[1] = u
    /\ height[u] > old_height
    /\ old_height > 0
    /\ excess[active[2]] > 0

\* floor(log2(m)) for m >= 1
Log2Floor(m) == CHOOSE k \in 0..m : 2 ^ k <= m /\ m < 2 ^ (k + 1)

\* the number of edge lines of an input file
NumEdges == Len(EdgeSlots)

\* the largest capacity on an arc out of the source when the running call of
\* the scaling driver began: the top-level driver never writes to its
\* argument, the one in ScalingFordFulkerson/ works on it in place
SourceMaxAtEntry == IF driver = "SFF" THEN SourceMax(graph) ELSE SourceMax(loaded)

C26_ResidualNonNegative ==
    driver \in {"FF", "SFF"} =>
        \A x \in Nodes, y \in Nodes :
            HasArc(residualgraph, x, y) => residualgraph.cap[<<x, y>>] >= 0

C26_Witness ==
    /\ driver \in {"FF", "SFF"}
    /\ stpaths >= 2
    /\ loaded.cap[<<"a", "b">>] > 0
    /\ loaded.cap[<<"b", "a">>] = 0
    /\ residualgraph.cap[<<"a", "b">>] = 0
    /\ residualgraph.cap[<<"b", "a">>] = loaded.cap[<<"a", "b">>]
    /\ residualgraph.cap[<<"s", "a">>] = 0

\* the neighbours of x that x has residual capacity to
ResidualNeighbours(x) ==
    {v \in Range(graph.adj[x]) : graph.cap[<<x, v>>] - flow[<<x, v>>] > 0}

\* C27: Valid labelling: after initialization and after every push and relabel,
\* height(u) <= height(v) + 1 for every arc (u,v) with residual(u,v) > 0, and
\* every relabel on a node with a residual-positive neighbour strictly
\* increases its height, to exactly 1 + the minimum height of its
\* residual-positive neighbours.
C27_ValidLabelling ==
    /\ [](PPRunning =>
            \A x \in Nodes : \A y \in ResidualNeighbours(x) : height[x] <= height[y] + 1)
    /\ [][(/\ pc = "pp_discharge" /\ pc' = "pp_discharge"
           /\ ~pushed /\ flow' = flow
           /\ ResidualNeighbours(u) # {}) =>
            /\ height'[u] > height[u]
            /\ \E v \in ResidualNeighbours(u) : height'[u] = 1 + height[v]
            /\ \A v \in ResidualNeighbours(u) : height'[u] <= 1 + height[v]]_vars

C27_Witness ==
    /\ pc = "pp_discharge"
    /\ ~pushed
    /\ height[u] > old_height
    /\ height[u] >= 2
    /\ \E v, w \in ResidualNeighbours(u) :
          /\ height[u] = height[v] + 1
          /\ height[w] > height[v]
          /\ w # source

\* C28: The path returned by augmentedPath or augmentedPathWithDelta is simple:
\* no node occurs twice on it (even though a node can be pushed on the stack
\* several times before it is first popped), so no arc and no reverse of an
\* arc on the path is updated twice in one augmentation.
C28_SimplePath ==
    PathReturned =>
        LET p == frame.path
            n == [k \in 0..Len(p) |-> IF k = 0 THEN p[1][1] ELSE p[k][2]]
        IN  /\ \A k \in 1..Len(p) : n[k - 1] = p[k][1]
            /\ \A i, j \in 0..Len(p) : i # j => n[i] # n[j]
            /\ \A i, j \in 1..Len(p) :
                  i # j => p[i] # p[j] /\ p[i] # <<p[j][2], p[j][1]>>

C28_Witness ==
    /\ PathReturned
    /\ Len(frame.path) = 3
    /\ frame.pushes >= 4
    /\ call.rg.cap[<<"a", "s">>] > 0

\* the nodes other than source and sink that hold excess
ActiveNodes == {v \in Nodes \ {source, sink} : excess[v] > 0}

\* C29: Active-queue invariant of the push-relabel driver: each time the main
\* loop tests its queue, every node other than s and t with excess > 0 is in
\* the queue, no node occurs in the queue twice, and the queue never contains
\* s or t.
C29_ActiveQueue ==
    /\ pc = "pp_loop" =>
          /\ ActiveNodes \subseteq Range(active)
          /\ \A i, j \in 1..Len(active) : i # j => active[i] # active[j]
    /\ PPRunning => source \notin Range(active) /\ sink \notin Range(active)

C29_Witness ==
    /\ pc = "pp_loop"
    /\ Len(active) = 2
    /\ ActiveNodes = {active[2]}
    /\ height[active[1]] > old_height
    /\ excess[sink] > 0

\* the main loop is about to pop the node that the last discharge put back at
\* the front of the queue
RequeuedAtFront ==
    /\ pc = "pp_loop"
    /\ active # <<>>
    /\ Head(active) = u
    /\ height[u] > old_height

\* C30: _discharge(u) returns only with excess(u) = 0, and excess(v) >= 0 for
\* every node v other than the source in every reachable state; a node put
\* back at the front of the queue because its height increased is therefore
\* always popped next with zero excess and skipped, never discharged twice in
\* a row.
C30_DischargeEmpties ==
    /\ [][(pc = "pp_discharge" /\ pc' = "pp_loop") =>
            /\ excess[u] = 0
            /\ excess' = excess
            /\ height[u] > old_height => RequeuedAtFront']_vars
    /\ [](\A v \in Nodes \ {source} : excess[v] >= 0)
    /\ [][RequeuedAtFront =>
            /\ excess[u] = 0
            /\ pc' = "pp_loop"
            /\ u' = u
            /\ active' = Tail(active)
            /\ flow' = flow /\ height' = height /\ excess' = excess]_vars
    /\ [][(pc = "pp_loop" /\ pc' = "pp_discharge") => u' # u]_vars

C30_Witness ==
    /\ pc = "pp_loop"
    /\ u \in {"a", "b"}
    /\ u \notin Range(active)
    /\ excess[u] = 0
    /\ height[u] > old_height
    /\ old_height > 0
    /\ active # <<>>
    /\ excess[Head(active)] > 0
    /\ excess[sink] > 0

====
